---- MODULE Spec2Model ----
(***************************************************************************)
(* Big-M tableau Simplex pipeline of LP_solver:                            *)
(*   check_and_fix_rank -> initialize_tableau -> solve_simplex -> report.  *)
(*                                                                         *)
(* Numbers.  The program computes in IEEE doubles; the model computes in   *)
(* exact rationals <<num, den>> (den > 0, lowest terms), so it describes   *)
(* the program on inputs whose intermediate values the doubles carry to    *)
(* well within the program's tolerances (1e-10 and 1e-8).  TLC's integers  *)
(* are 32 bit and it stops with an error on overflow, never wraps.         *)
(*                                                                         *)
(* Indices.  Arrays are functions on 0..k-1, so every row and column index *)
(* is the one the source uses (row 0 of the tableau is the objective row). *)
(***************************************************************************)
EXTENDS Integers, Sequences, FiniteSets, TLC

VARIABLES
    mode,        \* which caller runs: "main", "checked", "direct", "tableau"
                 \* or "convert"
    pc,          \* position of that caller
    c, A, b,     \* the standard-form problem as handed to the caller
    is_feasible, \* check_and_fix_rank's verdict
    Ar, br,      \* A and b as returned by check_and_fix_rank
    tableau,     \* the Simplex tableau (owned by solve_simplex once built)
    basic_vars,  \* basic_vars[i]: column basic in constraint row i+1, or None
    status,      \* solve_simplex's status
    solution,    \* solve_simplex's solution vector, or None
    result,      \* what solve_linear_program returned
    exc,         \* exception that ended the run, or None
    visited,     \* history: the bases solve_simplex has stood on, in order
    pivots,      \* history: number of pivots performed
    degenerate,  \* history: number of pivots on a row whose RHS was 0
    inequalities, maximization,  \* the other arguments of convert_to_standard_form
    c_new, A_new, b_new,         \* what convert_to_standard_form returned
    entering, leaving  \* solve_simplex's locals enter_col and leave_row as the
                       \* current pass of the loop set them, or None

\* the converter's side of the state
converter == <<inequalities, maximization, c_new, A_new, b_new>>

\* the column and row the loop of solve_simplex last chose
chosen == <<entering, leaving>>

vars == <<mode, pc, c, A, b, is_feasible, Ar, br, tableau, basic_vars,
          status, solution, result, exc, visited, pivots, degenerate,
          inequalities, maximization, c_new, A_new, b_new, entering, leaving>>

\* None, and a present value
None == <<>>
Some(x) == <<x>>
Get(o) == o[1]
NoStatus == "None"

----------------------------------------------------------------------------
(* Exact rational arithmetic standing for the float operations.            *)

RECURSIVE GCD(_, _)
GCD(x, y) == IF y = 0 THEN x ELSE GCD(y, x % y)

Abs(x) == IF x < 0 THEN -x ELSE x

Q(n, d) ==
    LET g == GCD(Abs(n), Abs(d))
        s == IF d < 0 THEN -1 ELSE 1
    IN  <<(s * n) \div g, (s * d) \div g>>

I(n) == <<n, 1>>
Zero == I(0)
One == I(1)

\* applied to values of either form below
QNeg(x) == IF Len(x) = 2 THEN <<-x[1], x[2]>> ELSE <<-x[1], x[2], x[3]>>
QAbs(x) == IF Len(x) = 2 THEN <<Abs(x[1]), x[2]>> ELSE <<Abs(x[1]), x[2], x[3]>>

QAdd(x, y) ==
    LET g == GCD(x[2], y[2])
    IN  Q(x[1] * (y[2] \div g) + y[1] * (x[2] \div g), (x[2] \div g) * y[2])

QSub(x, y) == QAdd(x, QNeg(y))

QMul(x, y) ==
    LET g1 == GCD(Abs(x[1]), y[2])
        g2 == GCD(Abs(y[1]), x[2])
    IN  <<(x[1] \div g1) * (y[1] \div g2), (x[2] \div g2) * (y[2] \div g1)>>

\* x / y for y # 0
QDiv(x, y) ==
    QMul(x, IF y[1] > 0 THEN <<y[2], y[1]>> ELSE <<-y[2], -y[1]>>)

QLt(x, y) == x[1] * y[2] < y[1] * x[2]
QLe(x, y) == x[1] * y[2] <= y[1] * x[2]

\* 1e-10 = EpsRoot^(-2): the pivot tolerance of solve_simplex
EpsRoot == 100000
\* 1e-8 = 1 / TolInv: the rank and feasibility tolerance
TolInv == 100000000

CeilDiv(x, y) == (x + y - 1) \div y

\* A value too fine or too large for a 32-bit fraction is <<n, d, z>>,
\* standing for (n/d) * EpsRoot^z with z # 0; every value that fits is kept
\* as <<n, d>>.  The operations above are for values <<n, d>>; solve_simplex
\* and initialize_tableau, which are run on both forms, compute with the
\* W operations below.  What neither form can hold has no value here
\* (Unrepresentable), and TLC stops on it.
IsPlain(x) == Len(x) = 2
Expo(x) == IF IsPlain(x) THEN 0 ELSE x[3]
Unrepresentable == CHOOSE v \in {} : TRUE

RECURSIVE Strip(_, _, _)
\* (n/d) * EpsRoot^z for n # 0 with every factor EpsRoot of n and d moved
\* into the exponent
Strip(n, d, z) ==
    IF d % EpsRoot = 0 THEN Strip(n, d \div EpsRoot, z - 1)
    ELSE IF n % EpsRoot = 0 THEN Strip(n \div EpsRoot, d, z + 1)
    ELSE <<n, d, z>>

Stripped(x) == Strip(x[1], x[2], Expo(x))

RECURSIVE Norm(_, _, _)
\* (n/d) * EpsRoot^z, n/d in lowest terms, with the exponent brought as near
\* 0 as 32 bits allow
Norm(n, d, z) ==
    IF n = 0 THEN <<0, 1>>
    ELSE IF z = 0 THEN <<n, d>>
    ELSE IF z < 0
    THEN LET g == GCD(Abs(n), EpsRoot)
             f == EpsRoot \div g
         IN  IF d <= 2147483647 \div f THEN Norm(n \div g, d * f, z + 1)
             ELSE <<n, d, z>>
    ELSE LET g == GCD(d, EpsRoot)
             f == EpsRoot \div g
         IN  IF Abs(n) <= 2147483647 \div f THEN Norm(n * f, d \div g, z - 1)
             ELSE <<n, d, z>>

RECURSIVE ShiftUp(_, _, _)
\* n/d divided by EpsRoot^k, as a fraction
ShiftUp(n, d, k) ==
    IF k = 0 THEN <<n, d>>
    ELSE LET g == GCD(Abs(n), EpsRoot)
             f == EpsRoot \div g
         IN  IF d <= 2147483647 \div f THEN ShiftUp(n \div g, d * f, k - 1)
             ELSE Unrepresentable

WAdd(x, y) ==
    IF IsPlain(x) /\ IsPlain(y) THEN QAdd(x, y)
    ELSE IF x[1] = 0 THEN y
    ELSE IF y[1] = 0 THEN x
    ELSE LET sx == Stripped(x)
             sy == Stripped(y)
             z == IF sx[3] > sy[3] THEN sx[3] ELSE sy[3]
             mx == ShiftUp(sx[1], sx[2], z - sx[3])
             my == ShiftUp(sy[1], sy[2], z - sy[3])
             sum == QAdd(mx, my)
         IN  Norm(sum[1], sum[2], z)

WSub(x, y) == WAdd(x, QNeg(y))

WMul(x, y) ==
    IF IsPlain(x) /\ IsPlain(y) THEN QMul(x, y)
    ELSE IF x[1] = 0 \/ y[1] = 0 THEN <<0, 1>>
    ELSE LET sx == Stripped(x)
             sy == Stripped(y)
             product == QMul(<<sx[1], sx[2]>>, <<sy[1], sy[2]>>)
         IN  Norm(product[1], product[2], sx[3] + sy[3])

\* 1 / y for y # 0
Recip(y) ==
    IF IsPlain(y)
    THEN (IF y[1] > 0 THEN <<y[2], y[1]>> ELSE <<-y[2], -y[1]>>)
    ELSE (IF y[1] > 0 THEN <<y[2], y[1], -y[3]>> ELSE <<-y[2], -y[1], -y[3]>>)

\* x / y for y # 0
WDiv(x, y) == IF IsPlain(x) /\ IsPlain(y) THEN QDiv(x, y) ELSE WMul(x, Recip(y))

WLt(x, y) == IF IsPlain(x) /\ IsPlain(y) THEN QLt(x, y) ELSE WSub(x, y)[1] < 0
WLe(x, y) == IF IsPlain(x) /\ IsPlain(y) THEN QLe(x, y) ELSE WSub(x, y)[1] <= 0

RECURSIVE LtPow(_, _, _)
\* p < q * EpsRoot^k for p, q > 0, k >= 0
LtPow(p, q, k) == IF k = 0 THEN p < q ELSE LtPow(p \div EpsRoot, q, k - 1)

RECURSIVE GtPow(_, _, _)
\* p > q * EpsRoot^k for p, q > 0, k >= 0
GtPow(p, q, k) == IF k = 0 THEN p > q ELSE GtPow(CeilDiv(p, EpsRoot), q, k - 1)

\* (n/d) * EpsRoot^z > 1e-10, < 1e-10 for n, d > 0
MagGtEps(n, d, z) ==
    IF z + 2 >= 0 THEN LtPow(d, n, z + 2) ELSE GtPow(n, d, -(z + 2))
MagLtEps(n, d, z) ==
    IF z + 2 >= 0 THEN GtPow(d, n, z + 2) ELSE LtPow(n, d, -(z + 2))

\* x < -1e-10, x > 1e-10, |x| < 1e-10  (exact: floor(floor(d/n)/r) < r iff d/n < r*r)
LtNegEps(x) ==
    IF IsPlain(x) THEN x[1] < 0 /\ ((x[2] \div (-x[1])) \div EpsRoot) < EpsRoot
    ELSE x[1] < 0 /\ MagGtEps(-x[1], x[2], x[3])
GtEps(x) ==
    IF IsPlain(x) THEN x[1] > 0 /\ ((x[2] \div x[1]) \div EpsRoot) < EpsRoot
    ELSE x[1] > 0 /\ MagGtEps(x[1], x[2], x[3])
AbsLtEps(x) ==
    IF IsPlain(x)
    THEN x[1] = 0 \/ ~(CeilDiv(CeilDiv(x[2], Abs(x[1])), EpsRoot) <= EpsRoot)
    ELSE MagLtEps(Abs(x[1]), x[2], x[3])

\* |x| < tol, |x| > tol for tol = 1e-8
AbsLtTol(x) == x[1] = 0 \/ ~(CeilDiv(x[2], Abs(x[1])) <= TolInv)
AbsGtTol(x) == x[1] # 0 /\ (x[2] \div Abs(x[1])) < TolInv
\* sqrt(s) < tol, sqrt(s) > tol for a squared norm s >= 0
NormLtTol(s) ==
    s[1] = 0 \/ ~(CeilDiv(CeilDiv(s[2], s[1]), TolInv) <= TolInv)
NormGtTol(s) == s[1] > 0 /\ ((s[2] \div s[1]) \div TolInv) < TolInv

----------------------------------------------------------------------------
(* Arrays: functions on 0..k-1.                                            *)

Size(f) == Cardinality(DOMAIN f)
Rng(k) == 0 .. (k - 1)
Vec(s) == [i \in Rng(Len(s)) |-> I(s[i + 1])]
Mat(rows) == [i \in Rng(Len(rows)) |-> Vec(rows[i + 1])]
Last(row) == row[Size(row) - 1]

RECURSIVE SumTo(_, _)
\* f[0] + ... + f[k-1]
SumTo(f, k) ==
    IF k = 0 THEN Zero
    ELSE LET head == SumTo(f, k - 1)
         IN  IF head[1] = 0 THEN f[k - 1] ELSE QAdd(head, f[k - 1])

RECURSIVE WSumTo(_, _)
\* the same for values of either form
WSumTo(f, k) == IF k = 0 THEN Zero ELSE WAdd(WSumTo(f, k - 1), f[k - 1])

Dot(u, v) == SumTo([i \in DOMAIN u |-> QMul(u[i], v[i])], Size(u))
NormSq(u) == Dot(u, u)

Min(S) == CHOOSE x \in S : \A y \in S : x <= y
Max(S) == CHOOSE x \in S : \A y \in S : x >= y

----------------------------------------------------------------------------
(* initialize_tableau (big_m_initialization.py)                            *)

\* default penalty of initialize_tableau, and the one main.py passes
DefaultM == 10000
MainM == 1000000

\* the tableau with a row of negative b[i] negated but its RHS copied as
\* it is
initialize_tableau_rhs_as_given(cc, AA, bb, M) ==
    LET m == Size(AA)
        n == Size(cc)
        negated(i) == WLt(bb[i], Zero)
        ConstraintRow(i) ==
            [j \in Rng(n + m + 1) |->
                IF j < n THEN (IF negated(i) THEN QNeg(AA[i][j]) ELSE AA[i][j])
                ELSE IF j < n + m THEN (IF j = n + i THEN One ELSE Zero)
                ELSE bb[i]]
        Penalty(j) ==
            WSumTo([i \in Rng(m) |->
                     IF negated(i) THEN WMul(I(M), AA[i][j])
                     ELSE QNeg(WMul(I(M), AA[i][j]))], m)
        ObjectiveRow ==
            [j \in Rng(n + m + 1) |->
                IF j < n THEN WAdd(cc[j], Penalty(j))
                ELSE IF j < n + m THEN Zero
                ELSE QNeg(WSumTo([i \in Rng(m) |-> WMul(I(M), QAbs(bb[i]))], m))]
    IN  [r \in Rng(m + 1) |-> IF r = 0 THEN ObjectiveRow ELSE ConstraintRow(r - 1)]

\* A has shape (m, n); n is read from c, which the callers keep as long as
\* A is wide (a 0-row A still has n columns).
initialize_tableau(cc, AA, bb, M) ==
    LET m == Size(AA)
        n == Size(cc)
        negated(i) == WLt(bb[i], Zero)
        ConstraintRow(i) ==
            [j \in Rng(n + m + 1) |->
                IF j < n THEN (IF negated(i) THEN QNeg(AA[i][j]) ELSE AA[i][j])
                ELSE IF j < n + m THEN (IF j = n + i THEN One ELSE Zero)
                ELSE (IF negated(i) THEN QNeg(bb[i]) ELSE bb[i])]
        Penalty(j) ==
            WSumTo([i \in Rng(m) |->
                     IF negated(i) THEN WMul(I(M), AA[i][j])
                     ELSE QNeg(WMul(I(M), AA[i][j]))], m)
        ObjectiveRow ==
            [j \in Rng(n + m + 1) |->
                IF j < n THEN WAdd(cc[j], Penalty(j))
                ELSE IF j < n + m THEN Zero
                ELSE QNeg(WSumTo([i \in Rng(m) |-> WMul(I(M), QAbs(bb[i]))], m))]
    IN  [r \in Rng(m + 1) |-> IF r = 0 THEN ObjectiveRow ELSE ConstraintRow(r - 1)]

----------------------------------------------------------------------------
(* solve_simplex (simplex.py)                                              *)

NumConstraints(t) == Size(t) - 1
NumColumns(t) == Size(t[0]) - 1
num_original_vars(t) == NumColumns(t) - NumConstraints(t)

InitialBasis(t) ==
    [i \in Rng(NumConstraints(t)) |-> num_original_vars(t) + i]

IsOptimal(t) == \A j \in Rng(NumColumns(t)) : ~LtNegEps(t[0][j])

negative_indices(t) == {j \in Rng(NumColumns(t)) : LtNegEps(t[0][j])}

\* mutant: the most negative coefficient enters (first one on ties)
enter_col_most_negative(t) ==
    CHOOSE j \in negative_indices(t) :
        \A k \in negative_indices(t) :
            \/ WLt(t[0][j], t[0][k])
            \/ t[0][j] = t[0][k] /\ j <= k

enter_col(t) == Min(negative_indices(t))

IsUnbounded(t, e) == \A i \in 1 .. NumConstraints(t) : WLe(t[i][e], Zero)

\* the state of the ratio loop; inf marks min_ratio = min_basic_var = np.inf
RatioStart == [inf |-> TRUE, min_ratio |-> Zero, leave_row |-> -1, min_basic_var |-> 0]

RatioStep(t, bv, e, i, st) ==
    LET entry == t[i + 1][e]
        ratio == WDiv(Last(t[i + 1]), entry)
        smaller == st.inf \/ GtEps(WSub(st.min_ratio, ratio))
        tie == ~st.inf /\ AbsLtEps(WSub(ratio, st.min_ratio))
                       /\ bv[i] < st.min_basic_var
    IN  IF GtEps(entry) /\ (smaller \/ tie)
        THEN [inf |-> FALSE, min_ratio |-> ratio, leave_row |-> i + 1,
              min_basic_var |-> bv[i]]
        ELSE st

RECURSIVE RatioLoop(_, _, _, _)
\* the loop state after rows 0..k-1
RatioLoop(t, bv, e, k) ==
    IF k = 0 THEN RatioStart
    ELSE RatioStep(t, bv, e, k - 1, RatioLoop(t, bv, e, k - 1))

\* the ratio test without the ratios: the first row with a positive entry
\* in the entering column leaves
leave_row_first_positive(t, bv, e) ==
    LET positive == {i \in Rng(NumConstraints(t)) : GtEps(t[i + 1][e])}
    IN  IF positive = {} THEN -1 ELSE Min(positive) + 1

leave_row(t, bv, e) == RatioLoop(t, bv, e, NumConstraints(t)).leave_row

\* Python index i into an array of k entries: negative indices count from the end
PyIndex(i, k) == IF i < 0 THEN i + k ELSE i
PyInRange(i, k) == -k <= i /\ i < k

\* the pivot with its elimination loop started at row 1: the objective row
\* is left as it was
PivotRows_constraints_only(t, l, e) ==
    LET r == PyIndex(l, Size(t))
        pivot == t[r][e]
        normal == [j \in DOMAIN t[r] |-> WDiv(t[r][j], pivot)]
        eliminated(row) ==
            [j \in DOMAIN row |-> WSub(row[j], WMul(row[e], normal[j]))]
    IN  [i \in DOMAIN t |->
            IF i = l THEN normal
            ELSE IF i = 0 THEN t[i]
            ELSE IF i = r THEN eliminated(normal)
            ELSE eliminated(t[i])]

\* lines 79-84: row leave_row is divided by the pivot entry, then every row i
\* with i != leave_row has its multiple of that row taken off.  leave_row is
\* compared as the number it is: with leave_row = -1 the divided row is the
\* last one, no i equals -1, and the last row too has its own multiple taken
\* off itself after all the rows above it.
PivotRows(t, l, e) ==
    LET r == PyIndex(l, Size(t))
        pivot == t[r][e]
        normal == [j \in DOMAIN t[r] |-> WDiv(t[r][j], pivot)]
        eliminated(row) ==
            [j \in DOMAIN row |-> WSub(row[j], WMul(row[e], normal[j]))]
    IN  [i \in DOMAIN t |->
            IF i = l THEN normal
            ELSE IF i = r THEN eliminated(normal)
            ELSE eliminated(t[i])]

\* the extraction reading tableau[i, -1] in place of tableau[i+1, -1]: the
\* row above the basic variable's own
ExtractSolution_row_above(t, bv) ==
    [j \in Rng(num_original_vars(t)) |->
        IF \E i \in DOMAIN bv : bv[i] = j
        THEN Last(t[Max({i \in DOMAIN bv : bv[i] = j})])
        ELSE Zero]

ExtractSolution(t, bv) ==
    [j \in Rng(num_original_vars(t)) |->
        IF \E i \in DOMAIN bv : bv[i] = j
        THEN Last(t[Max({i \in DOMAIN bv : bv[i] = j}) + 1])
        ELSE Zero]

----------------------------------------------------------------------------
(* feasibility_check.py                                                    *)

Row(AA, i) == AA[i]
Column(AA, j) == [i \in DOMAIN AA |-> AA[i][j]]
\* A.shape[1] of a matrix with at least one row
Width(AA) == Size(AA[0])

\* the k-th smallest member of S, k = 0, 1, ...
RECURSIVE Nth(_, _)
Nth(S, k) == IF k = 0 THEN Min(S) ELSE Nth(S \ {Min(S)}, k - 1)

\* A[rows] and b[rows] for an ascending index list given as a set
Select(f, rows) == [k \in Rng(Cardinality(rows)) |-> f[Nth(rows, k)]]

VSub(u, v) == [i \in DOMAIN u |-> QSub(u[i], v[i])]
VScale(k, u) == [i \in DOMAIN u |-> QMul(k, u[i])]
IsZeroVec(u) == \A i \in DOMAIN u : u[i][1] = 0
Unit(dim, j) == [i \in Rng(dim) |-> IF i = j THEN One ELSE Zero]

zero_rows(AA) == {i \in DOMAIN AA : \A j \in DOMAIN AA[i] : AbsLtTol(AA[i][j])}

\* row j is found to be ratio * row i, the ratio read at row i's first non-zero entry
IsMultipleOf(row_j, row_i) ==
    LET non_zero_idx == {k \in DOMAIN row_i : AbsGtTol(row_i[k])}
    IN  /\ ~NormLtTol(NormSq(row_i))
        /\ ~NormLtTol(NormSq(row_j))
        /\ non_zero_idx # {}
        /\ LET ratio == QDiv(row_j[Min(non_zero_idx)], row_i[Min(non_zero_idx)])
           IN  \A k \in DOMAIN row_i :
                   AbsLtTol(QSub(row_j[k], QMul(ratio, row_i[k])))

pre_check_matrix(AA) ==
    LET valid == DOMAIN AA \ zero_rows(AA)
        multiple_rows ==
            {j \in valid : \E i \in valid : i < j /\ IsMultipleOf(AA[j], AA[i])}
    IN  valid \ multiple_rows

\* v less its components along dirs[0..k-1] (mutually orthogonal, possibly zero)
RECURSIVE Residual(_, _, _)
Residual(v, dirs, k) ==
    IF k = 0 THEN v
    ELSE LET w == Residual(v, dirs, k - 1)
             d == dirs[k - 1]
             \* the coefficient of w along d
             along == IF IsZeroVec(w) \/ IsZeroVec(d) THEN Zero
                      ELSE QDiv(Dot(w, d), NormSq(d))
         IN  IF along[1] = 0 THEN w ELSE VSub(w, VScale(along, d))

\* np.linalg.qr (Householder, reduced) of the matrix with the given columns
\* in R^dim, in exact arithmetic, after k columns: dir[j] is a vector along
\* column j of Q and diag_sq[j] = R[j,j]^2.  |R[j,j]| is the length of what
\* column j keeps outside span(Q[:, :j]).  When that is not zero Q[:, j] lies
\* along it.  When it is zero the reflector is the identity and Q[:, j] is
\* H_0 ... H_(j-1) e_j, which is e_j less its part in span(Q[:, :j]) when
\* the earlier reflectors leave e_j fixed (QRExact).
RECURSIVE QR(_, _, _)
QR(cols, dim, k) ==
    IF k = 0 THEN [dir |-> <<>>, diag_sq |-> <<>>]
    ELSE LET prev == QR(cols, dim, k - 1)
             rho == Residual(cols[k - 1], prev.dir, k - 1)
             q == IF IsZeroVec(rho)
                  THEN Residual(Unit(dim, k - 1), prev.dir, k - 1)
                  ELSE rho
         IN  [dir |-> [j \in Rng(k) |-> IF j = k - 1 THEN q ELSE prev.dir[j]],
              diag_sq |-> [j \in Rng(k) |->
                              IF j = k - 1 THEN NormSq(rho) ELSE prev.diag_sq[j]]]

MinOf(x, y) == IF x < y THEN x ELSE y

\* the reading of Q[:, j] above is exact: a column that vanishes outside
\* the span of the earlier ones, and is followed by another, comes after
\* columns that are zero below their diagonal (identity reflectors only)
QRExact(cols, dim, k) ==
    \A j \in Rng(k - 1) :
        IsZeroVec(Residual(cols[j], QR(cols, dim, j).dir, j)) =>
            \A i \in Rng(j) : \A r \in Rng(dim) : r > i => cols[i][r][1] = 0

\* the rank check with every diagonal element of R passing the threshold
qr_rank_check_every_index(AA) == Rng(MinOf(Size(AA), Width(AA)))

\* indices of the rows of A that qr(A.T) reports independent
qr_rank_check(AA) ==
    LET m == Size(AA)
        n == Width(AA)
        k == MinOf(m, n)
        diag_R == QR(AA, n, k).diag_sq
    IN  {j \in Rng(k) : NormGtTol(diag_R[j])}

check_feasibility(AA, bb) ==
    LET m == Size(AA)
        n == Width(AA)
        k == MinOf(m, n)
        qr == QR([j \in Rng(n) |-> Column(AA, j)], m, k)
        r == Cardinality({j \in Rng(k) : NormGtTol(qr.diag_sq[j])})
        \* b - Q_r Q_r^T b for Q_r = Q[:, :r]
        gap == Residual(bb, qr.dir, r)
    IN  ~NormGtTol(NormSq(gap))

\* check_and_fix_rank with the all-rows-pruned case reported as a failure
check_and_fix_rank_empty_is_error(cc, AA, bb) ==
    IF ~check_feasibility(AA, bb)
    THEN [feasible |-> FALSE, c |-> cc, A |-> AA, b |-> bb]
    ELSE LET valid_rows == pre_check_matrix(AA)
             A1 == IF Cardinality(valid_rows) < Size(AA)
                   THEN Select(AA, valid_rows) ELSE AA
             b1 == IF Cardinality(valid_rows) < Size(AA)
                   THEN Select(bb, valid_rows) ELSE bb
         IN  IF Size(A1) = 0
             THEN [feasible |-> FALSE, c |-> cc, A |-> AA, b |-> bb]
             ELSE LET independent_rows == qr_rank_check(A1)
                  IN  IF Cardinality(independent_rows) < Size(A1)
                      THEN [feasible |-> TRUE, c |-> cc,
                            A |-> Select(A1, independent_rows),
                            b |-> Select(b1, independent_rows)]
                      ELSE [feasible |-> TRUE, c |-> cc, A |-> A1, b |-> b1]

check_and_fix_rank(cc, AA, bb) ==
    IF ~check_feasibility(AA, bb)
    THEN [feasible |-> FALSE, c |-> cc, A |-> AA, b |-> bb]
    ELSE LET valid_rows == pre_check_matrix(AA)
             A1 == IF Cardinality(valid_rows) < Size(AA)
                   THEN Select(AA, valid_rows) ELSE AA
             b1 == IF Cardinality(valid_rows) < Size(AA)
                   THEN Select(bb, valid_rows) ELSE bb
         IN  IF Size(A1) = 0
             THEN [feasible |-> TRUE, c |-> cc, A |-> A1, b |-> b1]
             ELSE LET independent_rows == qr_rank_check(A1)
                  IN  IF Cardinality(independent_rows) < Size(A1)
                      THEN [feasible |-> TRUE, c |-> cc,
                            A |-> Select(A1, independent_rows),
                            b |-> Select(b1, independent_rows)]
                      ELSE [feasible |-> TRUE, c |-> cc, A |-> A1, b |-> b1]

----------------------------------------------------------------------------
(* convert_to_standard_form (standard_form.py)                             *)

\* the slack column entry of row i in slack column k
SlackEntry(tag, i, k) ==
    IF k # i THEN Zero
    ELSE IF tag = "<=" THEN One
    ELSE IF tag = ">=" THEN QNeg(One)
    ELSE Zero

\* the converter with a surplus variable entered as +1, like a slack
convert_to_standard_form_surplus_added(cc, AA, bb, ineq, maxi) ==
    LET c1 == IF maxi THEN [j \in DOMAIN cc |-> QNeg(cc[j])] ELSE cc
        n == Size(c1)
        m == Size(ineq)
        tagged == {i \in Rng(m) : ineq[i] \in {"<=", ">="}}
        equality_indices == Rng(m) \ tagged
        new_row(i) ==
            [j \in Rng(n + m) |->
                IF j < n THEN AA[i][j]
                ELSE IF j - n = i /\ i \in tagged THEN One ELSE Zero]
        cols_to_keep == {j \in Rng(n + m) : j < n \/ (j - n) \notin equality_indices}
    IN  [c |-> [j \in Rng(n + Cardinality(tagged)) |-> IF j < n THEN c1[j] ELSE Zero],
         A |-> [i \in Rng(m) |-> Select(new_row(i), cols_to_keep)],
         b |-> bb]

\* c, A, b are copied on entry (np.array), so the caller's arrays are not
\* written to; the rows of A are paired with the tags (zip)
convert_to_standard_form(cc, AA, bb, ineq, maxi) ==
    LET c1 == IF maxi THEN [j \in DOMAIN cc |-> QNeg(cc[j])] ELSE cc
        n == Size(c1)
        m == Size(ineq)
        tagged == {i \in Rng(m) : ineq[i] \in {"<=", ">="}}
        equality_indices == Rng(m) \ tagged
        \* list(row) extended by the m slack columns
        new_row(i) ==
            [j \in Rng(n + m) |->
                IF j < n THEN AA[i][j] ELSE SlackEntry(ineq[i], i, j - n)]
        cols_to_keep == {j \in Rng(n + m) : j < n \/ (j - n) \notin equality_indices}
    IN  [c |-> [j \in Rng(n + Cardinality(tagged)) |-> IF j < n THEN c1[j] ELSE Zero],
         A |-> [i \in Rng(m) |-> Select(new_row(i), cols_to_keep)],
         b |-> bb]

----------------------------------------------------------------------------

(* Problems the callers are run on.                                        *)

KnownFeasible ==
    [c |-> Vec(<<-10, -12, -12, 0, 0, 0>>),
     A |-> Mat(<< <<1, 2, 2, 1, 0, 0>>, <<2, 1, 2, 0, 1, 0>>, <<2, 2, 1, 0, 0, 1>> >>),
     b |-> Vec(<<20, 20, 20>>)]

RedundantRows ==
    [c |-> Vec(<<1, 2, 3>>),
     A |-> Mat(<< <<1, 2, 3>>, <<2, 4, 6>>, <<1, 1, 1>> >>),
     b |-> Vec(<<6, 12, 3>>)]

UnboundedCase ==
    [c |-> Vec(<<-1, 0>>),
     A |-> Mat(<< <<1, -1>>, <<-1, 1>> >>),
     b |-> Vec(<<0, 0>>)]

InfeasibleCase ==
    [c |-> Vec(<<1, 1, 1>>),
     A |-> Mat(<< <<1, 0, 0>>, <<0, 1, 0>>, <<0, 0, 1>>, <<1, 0, 1>> >>),
     b |-> Vec(<<2, 2, 2, 2>>)]

LinearlyDependentRows ==
    [c |-> Vec(<<1, -2, 3>>),
     A |-> Mat(<< <<1, 0, 1>>, <<2, 0, 2>>, <<0, 1, 1>> >>),
     b |-> Vec(<<5, 10, 3>>)]

MultipleDependencies ==
    [c |-> Vec(<<1, 2, 3>>),
     A |-> Mat(<< <<1, 0, 1>>, <<2, 0, 2>>, <<1, 0, 1>>, <<0, 1, 0>> >>),
     b |-> Vec(<<1, 2, 1, 3>>)]

ZeroRows ==
    [c |-> Vec(<<1, 2>>),
     A |-> Mat(<< <<1, 1>>, <<0, 0>>, <<2, 2>> >>),
     b |-> Vec(<<1, 0, 2>>)]

FullRank ==
    [c |-> Vec(<<1, 2, 3>>),
     A |-> Mat(<< <<1, 0, 0>>, <<0, 1, 0>> >>),
     b |-> Vec(<<1, 1>>)]

\* a row that depends on the two before it, then an independent one
LaterIndependentRow ==
    [c |-> Vec(<<1, 1, 1, 1>>),
     A |-> Mat(<< <<1, 0, 0, 0>>, <<0, 1, 0, 0>>, <<1, 1, 0, 0>>, <<0, 0, 1, 0>> >>),
     b |-> Vec(<<1, 1, 2, 1>>)]

\* the same rows over three columns: more rows than columns
TallLaterIndependentRow ==
    [c |-> Vec(<<1, 1, 1>>),
     A |-> Mat(<< <<1, 0, 0>>, <<0, 1, 0>>, <<1, 1, 0>>, <<0, 0, 1>> >>),
     b |-> Vec(<<1, 1, 2, 1>>)]

TestProblems ==
    {KnownFeasible, RedundantRows, UnboundedCase, InfeasibleCase,
     LinearlyDependentRows, MultipleDependencies, ZeroRows, FullRank,
     LaterIndependentRow, TallLaterIndependentRow}

BlandTableau ==
    [r \in Rng(4) |->
        [j \in Rng(8) |->
            << <<Q(-3, 4), I(20), Q(-1, 2), I(6), Zero, Zero, Zero, I(3)>>,
               <<Q(1, 4), I(-8), I(-1), I(9), One, Zero, Zero, Zero>>,
               <<Q(1, 2), I(-12), Q(-1, 2), I(3), Zero, One, Zero, Zero>>,
               <<Zero, Zero, One, Zero, Zero, Zero, One, One>> >>[r + 1][j + 1]]]

\* entries of A run over -1..MaxCoef, entries of b over -1..MaxRhs
MaxCoef == 1
MaxRhs == 1
CostRange == {-1, 0, 1}
\* shapes (m, n) of the enumerated problems
Shapes == {<<1, 2>>, <<2, 2>>}

IntVec(k, S) == {[i \in Rng(k) |-> I(f[i])] : f \in [Rng(k) -> S]}

Enumerated ==
    UNION {[c : IntVec(s[2], CostRange),
            A : [Rng(s[1]) -> IntVec(s[2], -1 .. MaxCoef)],
            b : IntVec(s[1], -1 .. MaxRhs)] : s \in Shapes}

Problems == TestProblems \cup Enumerated

\* the example of standard_form.py and the problem of simplex.py's script
ConverterExample ==
    [c |-> Vec(<<3, -1, 2>>),
     A |-> Mat(<< <<1, 2, -1>>, <<4, -2, 1>>, <<1, 1, 1>> >>),
     b |-> Vec(<<4, 6, 2>>),
     inequalities |-> [i \in Rng(3) |-> <<">=", "=", "<=">>[i + 1]],
     maximization |-> FALSE]

ScriptProblem ==
    [c |-> Vec(<<-4, -1>>),
     A |-> Mat(<< <<-1, 2>>, <<2, 3>>, <<1, -1>>, <<1, 0>>, <<0, 1>> >>),
     b |-> Vec(<<4, 12, 3, 0, 0>>),
     inequalities |-> [i \in Rng(5) |-> <<"<=", "<=", "<=", ">=", ">=">>[i + 1]],
     maximization |-> FALSE]

Tags == {"<=", ">=", "="}
\* shapes (m, n) of the enumerated general-form problems
GeneralShapes == {<<1, 2>>, <<2, 2>>, <<3, 1>>}

EnumeratedGeneral ==
    UNION {[c : IntVec(s[2], CostRange),
            A : [Rng(s[1]) -> IntVec(s[2], {-1, 1})],
            b : {[i \in Rng(s[1]) |-> I(1)], [i \in Rng(s[1]) |-> I(-(i + 1))]},
            inequalities : [Rng(s[1]) -> Tags],
            maximization : BOOLEAN] : s \in GeneralShapes}

GeneralProblems == {ConverterExample, ScriptProblem} \cup EnumeratedGeneral

\* 5e-11: a positive coefficient below the 1e-10 of the ratio test
BelowThreshold == <<1, 200000, -1>>

\* one column of coefficients 5e-11: the entering column is positive in every
\* row (the unboundedness test does not fire) and above 1e-10 in none
TinyCoefficient ==
    [c |-> Vec(<<-1>>),
     A |-> [i \in Rng(1) |-> [j \in Rng(1) |-> BelowThreshold]],
     b |-> Vec(<<1>>)]

TinyColumn ==
    [c |-> Vec(<<-1>>),
     A |-> [i \in Rng(2) |-> [j \in Rng(1) |-> BelowThreshold]],
     b |-> Vec(<<0, 1>>)]

TinyProblems == {TinyCoefficient, TinyColumn}

\* cap on the pivots of one solve
MaxPivots == 12

----------------------------------------------------------------------------
(* The callers: solve_linear_program and the __main__ block of main.py     *)
(* ("main"); the tests that reduce a problem with check_and_fix_rank and   *)
(* then build and solve ("checked"), that build a tableau and solve it     *)
(* ("direct"), and that hand solve_simplex a tableau ("tableau").          *)

Init ==
    /\ is_feasible = None /\ Ar = None /\ br = None
    /\ basic_vars = None /\ status = NoStatus /\ solution = None
    /\ result = None /\ exc = NoStatus
    /\ visited = <<>> /\ pivots = 0 /\ degenerate = 0
    /\ c_new = None /\ A_new = None /\ b_new = None
    /\ entering = None /\ leaving = None
    /\ \/ /\ mode \in {"main", "direct"}
          /\ \E p \in Problems : c = p.c /\ A = p.A /\ b = p.b
          /\ inequalities = None /\ maximization = FALSE
          /\ tableau = None
          /\ pc = IF mode = "main" THEN "check" ELSE "build"
       \/ /\ mode = "direct"
          /\ \E p \in TinyProblems : c = p.c /\ A = p.A /\ b = p.b
          /\ inequalities = None /\ maximization = FALSE
          /\ tableau = None
          /\ pc = "build"
       \/ /\ mode = "checked"
          /\ \E p \in TestProblems : c = p.c /\ A = p.A /\ b = p.b
          /\ inequalities = None /\ maximization = FALSE
          /\ tableau = None
          /\ pc = "check"
       \/ /\ mode = "tableau"
          /\ c = None /\ A = None /\ b = None
          /\ inequalities = None /\ maximization = FALSE
          /\ tableau = BlandTableau
          /\ pc = "solve"
       \/ /\ mode = "convert"
          /\ \E p \in GeneralProblems :
                /\ c = p.c /\ A = p.A /\ b = p.b
                /\ inequalities = p.inequalities
                /\ maximization = p.maximization
          /\ tableau = None
          /\ pc = "convert"

\* c_std, A_std, b_std = convert_to_standard_form(c, A, b, inequalities, maximization)
ConvertToStandardForm ==
    /\ pc = "convert"
    /\ LET r == convert_to_standard_form(c, A, b, inequalities, maximization)
       IN  /\ c_new' = Some(r.c)
           /\ A_new' = Some(r.A)
           /\ b_new' = Some(r.b)
    /\ pc' = "converted"
    /\ UNCHANGED <<mode, c, A, b, inequalities, maximization, is_feasible, Ar, br,
                   tableau, basic_vars, status, solution, result, exc,
                   visited, pivots, degenerate, entering, leaving>>

\* main.py and the tests: is_feasible, c, A, b = check_and_fix_rank(c, A, b);
\* a test that finds the problem infeasible asserts that and ends
CheckAndFixRank ==
    /\ pc = "check"
    /\ LET r == check_and_fix_rank(c, A, b)
       IN  /\ is_feasible' = Some(r.feasible)
           /\ Ar' = r.A
           /\ br' = r.b
           /\ pc' = IF r.feasible THEN "build"
                    ELSE IF mode = "main" THEN "infeasible" ELSE "asserted"
    /\ UNCHANGED <<mode, c, A, b, tableau, basic_vars, status, solution,
                   result, exc, visited, pivots, degenerate>>
    /\ UNCHANGED <<converter, chosen>>

\* main.py: if not is_feasible: return None
ReturnInfeasible ==
    /\ pc = "infeasible"
    /\ result' = None
    /\ pc' = "returned"
    /\ UNCHANGED <<mode, c, A, b, is_feasible, Ar, br, tableau, basic_vars,
                   status, solution, exc, visited, pivots, degenerate>>
    /\ UNCHANGED <<converter, chosen>>

\* main.py: tableau_big_m = initialize_tableau(c, A, b, M = 1e6)
BuildMain ==
    /\ pc = "build" /\ mode = "main"
    /\ tableau' = initialize_tableau(c, Ar, br, MainM)
    /\ pc' = "solve"
    /\ UNCHANGED <<mode, c, A, b, is_feasible, Ar, br, basic_vars, status,
                   solution, result, exc, visited, pivots, degenerate>>
    /\ UNCHANGED <<converter, chosen>>

\* tests: initial_tableau = initialize_tableau(c, A, b), on the problem as
\* given or as check_and_fix_rank returned it
BuildDirect ==
    /\ pc = "build" /\ mode \in {"direct", "checked"}
    /\ tableau' = IF mode = "direct"
                  THEN initialize_tableau(c, A, b, DefaultM)
                  ELSE initialize_tableau(c, Ar, br, DefaultM)
    /\ pc' = "solve"
    /\ UNCHANGED <<mode, c, A, b, is_feasible, Ar, br, basic_vars, status,
                   solution, result, exc, visited, pivots, degenerate>>
    /\ UNCHANGED <<converter, chosen>>

\* solve_simplex, up to the loop
SimplexBegin ==
    /\ pc = "solve"
    /\ basic_vars' = Some(InitialBasis(tableau))
    /\ visited' = <<InitialBasis(tableau)>>
    /\ pc' = "loop"
    /\ UNCHANGED <<mode, c, A, b, is_feasible, Ar, br, tableau, status,
                   solution, result, exc, pivots, degenerate>>
    /\ UNCHANGED <<converter, chosen>>

\* one pass of the loop that returns 'optimal'
SimplexOptimal ==
    /\ pc = "loop"
    /\ IsOptimal(tableau)
    /\ status' = "optimal"
    /\ solution' = Some(ExtractSolution(tableau, Get(basic_vars)))
    /\ pc' = "solved"
    /\ UNCHANGED <<mode, c, A, b, is_feasible, Ar, br, tableau, basic_vars,
                   result, exc, visited, pivots, degenerate>>
    /\ UNCHANGED <<converter, chosen>>

\* the unbounded return with the solution vector left as np.zeros built it
SimplexUnbounded_zero_solution ==
    /\ pc = "loop"
    /\ ~IsOptimal(tableau)
    /\ IsUnbounded(tableau, enter_col(tableau))
    /\ status' = "unbounded"
    /\ basic_vars' = None
    /\ solution' = Some([j \in Rng(num_original_vars(tableau)) |-> Zero])
    /\ pc' = "solved"
    /\ UNCHANGED <<mode, c, A, b, is_feasible, Ar, br, tableau, result, exc,
                   visited, pivots, degenerate>>
    /\ entering' = Some(enter_col(tableau))
    /\ UNCHANGED <<converter, leaving>>

\* one pass of the loop that returns 'unbounded'
SimplexUnbounded ==
    /\ pc = "loop"
    /\ ~IsOptimal(tableau)
    /\ IsUnbounded(tableau, enter_col(tableau))
    /\ status' = "unbounded"
    /\ basic_vars' = None
    /\ solution' = None
    /\ pc' = "solved"
    /\ UNCHANGED <<mode, c, A, b, is_feasible, Ar, br, tableau, result, exc,
                   visited, pivots, degenerate>>
    /\ entering' = Some(enter_col(tableau))
    /\ UNCHANGED <<converter, leaving>>

\* one pass of the loop that pivots
SimplexPivot ==
    /\ pc = "loop"
    /\ pivots < MaxPivots
    /\ ~IsOptimal(tableau)
    /\ ~IsUnbounded(tableau, enter_col(tableau))
    /\ LET m == NumConstraints(tableau)
           e == enter_col(tableau)
           l == leave_row(tableau, Get(basic_vars), e)
       IN  /\ entering' = Some(e)
           /\ leaving' = Some(l)
           /\ IF ~PyInRange(l - 1, m)
              THEN \* basic_vars[leave_row - 1] = enter_col raises IndexError
                   /\ exc' = "IndexError"
                   /\ pc' = "raised"
                   /\ UNCHANGED <<tableau, basic_vars, visited, pivots, degenerate>>
              ELSE LET bv == [Get(basic_vars) EXCEPT ![PyIndex(l - 1, m)] = e]
                   IN  /\ basic_vars' = Some(bv)
                       /\ tableau' = PivotRows(tableau, l, e)
                       /\ visited' = Append(visited, bv)
                       /\ pivots' = pivots + 1
                       /\ degenerate' =
                             IF Last(tableau[PyIndex(l, m + 1)])[1] = 0
                             THEN degenerate + 1 ELSE degenerate
                       /\ UNCHANGED <<pc, exc>>
    /\ UNCHANGED <<mode, c, A, b, is_feasible, Ar, br, status, solution, result>>
    /\ UNCHANGED converter

\* main.py's reading of the objective without the sign change
obj_val_unnegated(t) == Last(t[0])

obj_val(t) == QNeg(Last(t[0]))

----------------------------------------------------------------------------
(* The pipeline as functions of the problem: solve_simplex run to its      *)
(* return and solve_linear_program's steps 2 to 4, built from the same     *)
(* steps the actions take one at a time.                                   *)

RECURSIVE SimplexRun(_, _, _)
\* the loop of solve_simplex from tableau t and basis bv, cut after fuel pivots
SimplexRun(t, bv, fuel) ==
    IF IsOptimal(t)
    THEN [status |-> "optimal", tableau |-> t,
          solution |-> Some(ExtractSolution(t, bv))]
    ELSE IF IsUnbounded(t, enter_col(t))
    THEN [status |-> "unbounded", tableau |-> t, solution |-> None]
    ELSE LET m == NumConstraints(t)
             e == enter_col(t)
             l == leave_row(t, bv, e)
         IN  IF ~PyInRange(l - 1, m)
             THEN [status |-> "IndexError", tableau |-> t, solution |-> None]
             ELSE IF fuel = 0
             THEN [status |-> "running", tableau |-> t, solution |-> None]
             ELSE SimplexRun(PivotRows(t, l, e),
                             [bv EXCEPT ![PyIndex(l - 1, m)] = e], fuel - 1)

solve_simplex(t) == SimplexRun(t, InitialBasis(t), MaxPivots)

\* solve_linear_program from the standard form on: the verdict, and after a
\* feasible verdict the status and obj_val = -final_tableau[0, -1]
solve_linear_program(cc, AA, bb) ==
    LET r == check_and_fix_rank(cc, AA, bb)
    IN  IF ~r.feasible
        THEN [is_feasible |-> FALSE, status |-> NoStatus, obj_val |-> None,
              solution |-> None]
        ELSE LET s == solve_simplex(initialize_tableau(cc, r.A, r.b, MainM))
             IN  [is_feasible |-> TRUE, status |-> s.status,
                  obj_val |-> Some(obj_val(s.tableau)), solution |-> s.solution]

\* main.py: obj_val = -final_tableau[0, -1], verify_solution against the
\* expected-output file (is_correct is that file's say), and the return
Report ==
    /\ pc = "solved" /\ mode = "main"
    /\ \E is_correct \in BOOLEAN :
          result' = Some([obj_val |-> obj_val(tableau),
                          solution |-> IF status = "optimal" /\ is_correct
                                       THEN solution ELSE None])
    /\ pc' = "returned"
    /\ UNCHANGED <<mode, c, A, b, is_feasible, Ar, br, tableau, basic_vars,
                   status, solution, exc, visited, pivots, degenerate>>
    /\ UNCHANGED <<converter, chosen>>

\* main.py __main__: obj_val, solution = solve_linear_program()
MainBlock ==
    /\ pc = "returned"
    /\ IF result = None
       THEN exc' = "TypeError" /\ pc' = "raised"
       ELSE exc' = exc /\ pc' = "exit"
    /\ UNCHANGED <<mode, c, A, b, is_feasible, Ar, br, tableau, basic_vars,
                   status, solution, result, visited, pivots, degenerate>>
    /\ UNCHANGED <<converter, chosen>>

Next ==
    \/ ConvertToStandardForm
    \/ CheckAndFixRank
    \/ ReturnInfeasible
    \/ BuildMain
    \/ BuildDirect
    \/ SimplexBegin
    \/ SimplexOptimal
    \/ SimplexUnbounded
    \/ SimplexPivot
    \/ Report
    \/ MainBlock

Spec == Init /\ [][Next]_vars

----------------------------------------------------------------------------
(* Claims.                                                                 *)

BasisSet(bv) == {bv[i] : i \in DOMAIN bv}

NoBasisRevisited ==
    \A i, j \in 1 .. Len(visited) :
        i < j => BasisSet(visited[i]) # BasisSet(visited[j])

\* C1: solve_simplex never stands on a basis twice, its loop always has a
\* next step to take within the pivot cap (it is never cut short), it raises
\* nothing, and it ends with status 'optimal' or 'unbounded'.
C1_TerminatesWithoutCycling ==
    /\ NoBasisRevisited
    /\ pc = "loop" =>
          \/ IsOptimal(tableau)
          \/ IsUnbounded(tableau, enter_col(tableau))
          \/ pivots < MaxPivots
    /\ exc # "IndexError"
    /\ pc = "solved" => status \in {"optimal", "unbounded"}

\* a solve that went through several degenerate pivots, where cycling is
\* possible, made progress as well, and ended
C1_Witness ==
    /\ pc = "solved"
    /\ degenerate >= 2 /\ pivots > degenerate

\* C2: whenever solve_simplex holds a basis (at every pass of its loop and
\* when it returns 'optimal'), basic_vars lists as many column indices as
\* there are constraint rows, all different, and for each row i the column
\* basic_vars[i] of the tableau is the unit vector of constraint row i with
\* a zero in the objective row.
C2_BasisInvariant ==
    (basic_vars # None /\ tableau # None) =>
        LET t == tableau
            bv == Get(basic_vars)
            m == Size(t) - 1
            n == Size(t[0]) - 1
        IN  /\ DOMAIN bv = 0 .. (m - 1)
            /\ \A i \in DOMAIN bv : bv[i] \in 0 .. (n - 1)
            /\ \A i, j \in DOMAIN bv : i # j => bv[i] # bv[j]
            /\ \A i \in DOMAIN bv :
                  /\ t[0][bv[i]] = Zero
                  /\ \A r \in 1 .. m :
                        t[r][bv[i]] = IF r = i + 1 THEN One ELSE Zero

\* a basis reached by pivoting, original columns having replaced artificial
\* ones
C2_Witness ==
    /\ pc = "loop" /\ pivots >= 2
    /\ basic_vars # None
    /\ \E i \in DOMAIN Get(basic_vars) :
          Get(basic_vars)[i] < num_original_vars(tableau)

\* C3: when check_and_fix_rank reports infeasible, the program stops with
\* that verdict: no tableau is built and solve_simplex is not entered, A and
\* b come back unreduced, and the verdict leaves the program's entry point
\* as a value, no exception being raised on the way.
C3_InfeasibleVerdictIsAValue ==
    (mode = "main" /\ is_feasible = Some(FALSE)) =>
        /\ tableau = None /\ basic_vars = None /\ status = NoStatus
        /\ Ar = A /\ br = b
        /\ pc \in {"infeasible", "returned", "exit"}
        /\ exc = NoStatus

\* the part of C3 that stops short of the entry point: nothing is built or
\* solved and A and b are unreduced
C3_PipelineStops ==
    (mode = "main" /\ is_feasible = Some(FALSE)) =>
        /\ tableau = None /\ basic_vars = None /\ status = NoStatus
        /\ Ar = A /\ br = b

----------------------------------------------------------------------------
(* The minimum of  c.x  subject to  Ax = b, x >= 0,  computed from the     *)
(* problem alone: every basis (a choice of as many columns as A has rows,  *)
(* with nonzero determinant) is solved by Cramer's rule.  With A of full   *)
(* row rank the minimum is finite exactly when some basis is primal        *)
(* feasible and some basis is dual feasible, and it is then attained at a  *)
(* primal feasible basis.                                                  *)

Minor(Mx, k, j) ==
    [r \in Rng(k - 1) |-> [q \in Rng(k - 1) |-> Mx[r + 1][IF q < j THEN q ELSE q + 1]]]

RECURSIVE Det(_, _)
\* determinant of a k x k matrix, expanded along row 0
Det(Mx, k) ==
    IF k = 0 THEN One
    ELSE SumTo([j \in Rng(k) |->
                   LET term == QMul(Mx[0][j], Det(Minor(Mx, k, j), k - 1))
                   IN  IF j % 2 = 0 THEN term ELSE QNeg(term)], k)

BasisMatrix(AA, S) ==
    [r \in DOMAIN AA |-> [q \in Rng(Cardinality(S)) |-> AA[r][Nth(S, q)]]]

ReplaceColumn(Mx, j, v) ==
    [r \in DOMAIN Mx |-> [q \in DOMAIN Mx[r] |-> IF q = j THEN v[r] ELSE Mx[r][q]]]

\* the z with Mx z = v, for a k x k matrix of nonzero determinant
CramerSolve(Mx, k, v) ==
    [q \in Rng(k) |-> QDiv(Det(ReplaceColumn(Mx, q, v), k), Det(Mx, k))]

\* the column sets of A (n columns) that are bases
Bases(AA, n) ==
    {S \in SUBSET Rng(n) :
        /\ Cardinality(S) = Size(AA)
        /\ Det(BasisMatrix(AA, S), Size(AA)) # Zero}

FullRowRank(AA, n) == Bases(AA, n) # {}

\* spread the basic values z over the n variables
Spread(S, n, z) ==
    [j \in Rng(n) |-> IF j \in S THEN z[Cardinality({q \in S : q < j})] ELSE Zero]

BasicSolution(AA, bb, n, S) ==
    Spread(S, n, CramerSolve(BasisMatrix(AA, S), Size(AA), bb))

ReducedCost(cc, AA, S, j) ==
    LET z == CramerSolve(BasisMatrix(AA, S), Size(AA), Column(AA, j))
    IN  QSub(cc[j], SumTo([q \in Rng(Size(AA)) |-> QMul(cc[Nth(S, q)], z[q])], Size(AA)))

PrimalFeasibleBases(AA, bb, n) ==
    {S \in Bases(AA, n) :
        \A j \in Rng(n) : QLe(Zero, BasicSolution(AA, bb, n, S)[j])}

DualFeasibleBases(cc, AA, n) ==
    {S \in Bases(AA, n) : \A j \in Rng(n) : QLe(Zero, ReducedCost(cc, AA, S, j))}

HasFiniteMinimum(cc, AA, bb) ==
    /\ PrimalFeasibleBases(AA, bb, Size(cc)) # {}
    /\ DualFeasibleBases(cc, AA, Size(cc)) # {}

MinimumValue(cc, AA, bb) ==
    LET values == {Dot(cc, BasicSolution(AA, bb, Size(cc), S)) :
                      S \in PrimalFeasibleBases(AA, bb, Size(cc))}
    IN  CHOOSE v \in values : \A w \in values : QLe(v, w)

\* x satisfies Ax = b, x >= 0
IsFeasiblePoint(AA, bb, x) ==
    /\ \A i \in DOMAIN AA : Dot(AA[i], x) = bb[i]
    /\ \A j \in DOMAIN x : QLe(Zero, x[j])

\* the problem the tableau was built from: as given ("direct") or as
\* check_and_fix_rank returned it
SolvedA == IF mode = "direct" THEN A ELSE Ar
SolvedB == IF mode = "direct" THEN b ELSE br

IsProblem(p) == c = p.c /\ A = p.A /\ b = p.b

EnteringColumnNonPositive(t) ==
    \E j \in Rng(Size(t[0]) - 1) :
        /\ LtNegEps(t[0][j])
        /\ \A k \in Rng(j) : ~LtNegEps(t[0][k])
        /\ \A i \in 1 .. (Size(t) - 1) : WLe(t[i][j], Zero)

\* C5: a pass of solve_simplex's loop that selects an entering column with
\* no positive entry in any constraint row returns at once with status
\* 'unbounded', solution and basis both absent, the tableau not pivoted
\* again; nothing is solved further after 'unbounded'; and the tableau built
\* from c=[-1,0], A=[[1,-1],[-1,1]], b=[0,0] ends 'unbounded' with no
\* solution.
C5_UnboundedReturnsAtOnce ==
    /\ [][(pc = "loop" /\ EnteringColumnNonPositive(tableau)) =>
             /\ pc' = "solved"
             /\ status' = "unbounded"
             /\ solution' = None
             /\ basic_vars' = None
             /\ tableau' = tableau
             /\ pivots' = pivots]_vars
    /\ [](status = "unbounded" =>
             solution = None /\ basic_vars = None /\ pc # "loop")
    /\ []((mode = "direct" /\ IsProblem(UnboundedCase) /\ pc = "solved") =>
             status = "unbounded" /\ solution = None)

\* the unbounded test problem solved: a pivot was made before the entering
\* column without a positive entry was met
C5_Witness ==
    /\ mode = "direct" /\ IsProblem(UnboundedCase)
    /\ pc = "solved" /\ status = "unbounded" /\ pivots >= 1
    /\ EnteringColumnNonPositive(tableau)

\* C6 (as stated): on the cycling-prone tableau solve_simplex ends
\* 'optimal' with a solution vector, and the final objective
\* -final_tableau[0, last], which starts at -3, is strictly greater than -3.
C6_FinalObjectiveAboveStart ==
    (mode = "tableau" /\ pc = "solved") =>
        /\ status = "optimal"
        /\ solution # None
        /\ QLt(I(-3), obj_val(tableau))

\* C6: on the cycling-prone tableau solve_simplex ends 'optimal' with a
\* solution vector, and the final objective -final_tableau[0, last], which
\* starts at -3, is strictly less than -3: it is -17/4, reached at
\* x = [1, 0, 1, 0].
C6_FinalObjectiveBelowStart ==
    /\ (mode = "tableau" /\ pc = "solve") => obj_val(tableau) = I(-3)
    /\ (mode = "tableau" /\ pc = "solved") =>
          /\ status = "optimal"
          /\ solution = Some(Vec(<<1, 0, 1, 0>>))
          /\ QLt(obj_val(tableau), I(-3))
          /\ obj_val(tableau) = Q(-17, 4)

\* the cycling-prone tableau solved, degenerate pivots behind it
C6_Witness ==
    /\ mode = "tableau" /\ pc = "solved"
    /\ status = "optimal" /\ degenerate >= 1

\* C7: when solve_simplex has returned 'optimal', no objective-row entry of
\* the returned tableau other than the RHS is below -epsilon, and the
\* returned vector has one slot per non-artificial column: slot basic_vars[i]
\* holds the RHS of constraint row i for every basic_vars[i] below the
\* structural-variable count, and the slot of every structural variable that
\* is not basic holds 0.
C7_OptimalReturn ==
    status = "optimal" =>
        LET t == tableau
            bv == Get(basic_vars)
            x == Get(solution)
            m == Size(t) - 1
            structural == Size(t[0]) - 1 - m
        IN  /\ \A j \in 0 .. (Size(t[0]) - 2) : ~LtNegEps(t[0][j])
            /\ solution # None /\ basic_vars # None
            /\ DOMAIN x = 0 .. (structural - 1)
            /\ \A i \in DOMAIN bv :
                  bv[i] < structural => x[bv[i]] = t[i + 1][Size(t[0]) - 1]
            /\ \A j \in DOMAIN x :
                  (\A i \in DOMAIN bv : bv[i] # j) => x[j] = Zero

\* an optimal return with a structural variable basic at a nonzero value,
\* another not basic, and an artificial variable still in the basis
C7_Witness ==
    /\ status = "optimal" /\ pc = "solved" /\ pivots >= 1
    /\ \E i \in DOMAIN Get(basic_vars) :
          /\ Get(basic_vars)[i] < num_original_vars(tableau)
          /\ Get(solution)[Get(basic_vars)[i]] # Zero
    /\ \E i \in DOMAIN Get(basic_vars) :
          Get(basic_vars)[i] >= num_original_vars(tableau)
    /\ \E j \in DOMAIN Get(solution) :
          \A i \in DOMAIN Get(basic_vars) : Get(basic_vars)[i] # j

\* rows of a matrix of n columns are linearly independent: some choice of
\* as many columns as there are rows has a nonzero determinant
RowsIndependent(AA, n) == Size(AA) = 0 \/ FullRowRank(AA, n)

IsZeroRow(row) == \A j \in DOMAIN row : row[j] = Zero

check_and_fix_rank_called == mode \in {"main", "checked"} /\ is_feasible # None

\* C8: when (A, b) passes the column-space test, check_and_fix_rank reports
\* feasible and returns rows of A that are linearly independent, picked in
\* order from A's rows, none of them a zero row, with b's entries of the same
\* rows; the linearly dependent 3x3 example keeps 2 rows and the example
\* with a zero row and a doubled row keeps 1; an A of full row rank comes
\* back unchanged with its b.
C8_ReducedRowsIndependent ==
    check_and_fix_rank_called =>
        /\ is_feasible = Some(check_feasibility(A, b))
        /\ is_feasible = Some(TRUE) =>
              /\ RowsIndependent(Ar, Size(c))
              /\ \E S \in SUBSET DOMAIN A :
                    /\ Ar = Select(A, S)
                    /\ br = Select(b, S)
                    /\ \A i \in S : ~IsZeroRow(A[i])
              /\ (Size(A) > 0 /\ FullRowRank(A, Size(c))) => (Ar = A /\ br = b)
              /\ IsProblem(LinearlyDependentRows) => Size(Ar) = 2
              /\ IsProblem(MultipleDependencies) => Size(Ar) = 2
              /\ IsProblem(ZeroRows) => Size(Ar) = 1

\* a reduction that had to drop a row that is no multiple of an earlier
\* one: three rows left by the pre-check, two of them kept
C8_Witness ==
    /\ check_and_fix_rank_called /\ is_feasible = Some(TRUE)
    /\ Cardinality(pre_check_matrix(A)) >= 3
    /\ Size(Ar) = 2

IsZeroMatrix(AA) == \A i \in DOMAIN AA : IsZeroRow(AA[i])

\* C10: for a zero matrix A, check_and_fix_rank reports feasible exactly
\* when b is zero; it then returns A and b with 0 rows, raises nothing, and
\* the caller goes on to build and solve the problem without constraints; a
\* zero A with a nonzero b is reported infeasible.
C10_ZeroMatrix ==
    (check_and_fix_rank_called /\ IsZeroMatrix(A)) =>
        /\ IsZeroRow(b) =>
              /\ is_feasible = Some(TRUE)
              /\ Size(Ar) = 0 /\ Size(br) = 0
              /\ exc = NoStatus
              /\ pc # "infeasible"
              /\ tableau # None => Size(tableau) = 1
        /\ ~IsZeroRow(b) => is_feasible = Some(FALSE)

\* a zero matrix with zero b, reduced to no rows and solved as a problem
\* without constraints
C10_Witness ==
    /\ check_and_fix_rank_called /\ IsZeroMatrix(A) /\ IsZeroRow(b)
    /\ Size(A) = 2 /\ Size(Ar) = 0
    /\ pc = "solved" /\ status = "optimal"

\* row i of A, or entry i of b when given as a vector of numbers, times k
ScaleRow(AA, i, k) == [AA EXCEPT ![i] = VScale(k, AA[i])]
ScaleEntry(bb, i, k) == [bb EXCEPT ![i] = QMul(k, bb[i])]

ScaleFactors == {Q(1, 2), I(2), I(3)}

\* what solve_linear_program has produced in this run
Produced ==
    [is_feasible |-> Get(is_feasible),
     status |-> status,
     obj_val |-> IF status = NoStatus THEN None ELSE Some(obj_val(tableau)),
     solution |-> solution]

\* C9: for every constraint row i and every positive scalar k, the program
\* run on (c, A, b) with row i of A and entry i of b multiplied by k gives
\* the feasibility verdict of the run on (c, A, b), and where this run ended
\* 'optimal' the scaled run ends 'optimal' with the same objective value.
C9_RowScalingInvariance ==
    (mode = "main" /\ pc = "returned") =>
        \A i \in DOMAIN A : \A k \in ScaleFactors :
            LET scaled == solve_linear_program(c, ScaleRow(A, i, k), ScaleEntry(b, i, k))
            IN  /\ scaled.is_feasible = Get(is_feasible)
                /\ status = "optimal" =>
                      /\ scaled.status = "optimal"
                      /\ scaled.obj_val = Some(obj_val(tableau))

\* the run of the program is the function solve_linear_program of its input
C9_RunIsFunction ==
    (mode = "main" /\ pc = "returned") => Produced = solve_linear_program(c, A, b)

\* the verdict half of C9 alone
C9_VerdictInvariance ==
    (mode = "main" /\ pc = "returned") =>
        \A i \in DOMAIN A : \A k \in ScaleFactors :
            check_and_fix_rank(c, ScaleRow(A, i, k), ScaleEntry(b, i, k)).feasible
                = Get(is_feasible)

\* the objective half of C9 for runs whose returned point satisfies the
\* constraints, no artificial variable being left at a positive value
C9_FeasibleOptimumInvariance ==
    (mode = "main" /\ pc = "returned" /\ status = "optimal"
        /\ IsFeasiblePoint(Ar, br, Get(solution))) =>
        \A i \in DOMAIN A : \A k \in ScaleFactors :
            LET scaled == solve_linear_program(c, ScaleRow(A, i, k), ScaleEntry(b, i, k))
            IN  /\ scaled.status = "optimal"
                /\ scaled.obj_val = Some(obj_val(tableau))

\* column j of a matrix with at least one row, as a vector over its rows
ColumnOf(AA, j) == [i \in DOMAIN AA |-> AA[i][j]]

\* C11: convert_to_standard_form on n variables and m tagged rows returns
\* c' and A' with n' = n + (number of <= rows) + (number of >= rows)
\* entries and columns; the first n columns of A' are A; every <= row i has
\* an extra column of its own that is +1 in row i and 0 elsewhere, every >=
\* row i one that is -1 in row i and 0 elsewhere, and there are no other
\* extra columns; the extra entries of c' are 0 and the first n are c,
\* negated under maximization; b comes back as it was; and the call leaves
\* the caller's c, A and b as they were.
C11_StandardForm ==
    /\ [](pc = "converted" =>
            LET n == Size(c)
                m == Size(inequalities)
                le == {i \in Rng(m) : inequalities[i] = "<="}
                ge == {i \in Rng(m) : inequalities[i] = ">="}
                n1 == n + Cardinality(le) + Cardinality(ge)
                c1 == Get(c_new)
                A1 == Get(A_new)
                extra == n .. (n1 - 1)
            IN  /\ DOMAIN c1 = Rng(n1)
                /\ DOMAIN A1 = Rng(m)
                /\ \A i \in Rng(m) : DOMAIN A1[i] = Rng(n1)
                /\ \A i \in Rng(m) : \A j \in Rng(n) : A1[i][j] = A[i][j]
                /\ \A i \in le : \E j \in extra :
                      ColumnOf(A1, j) = [k \in Rng(m) |-> IF k = i THEN I(1) ELSE I(0)]
                /\ \A i \in ge : \E j \in extra :
                      ColumnOf(A1, j) = [k \in Rng(m) |-> IF k = i THEN I(-1) ELSE I(0)]
                /\ \A j \in extra : c1[j] = I(0)
                /\ \A j \in Rng(n) :
                      c1[j] = IF maximization THEN QNeg(c[j]) ELSE c[j]
                /\ b_new = Some(b))
    /\ [][pc = "convert" => (c' = c /\ A' = A /\ b' = b)]_vars

\* a maximization problem with rows of all three kinds, converted
C11_Witness ==
    /\ pc = "converted" /\ maximization
    /\ \E i, j, k \in DOMAIN inequalities :
          inequalities[i] = "<=" /\ inequalities[j] = ">=" /\ inequalities[k] = "="
    /\ \E j \in DOMAIN c : c[j] # Zero

\* the penalty the caller passes to initialize_tableau
PenaltyM == IF mode = "main" THEN MainM ELSE DefaultM

\* C13: for (c, A, b, M) with A of size m x n, the tableau initialize_tableau
\* returns has m+1 rows of n+m+1 entries; constraint row i is sign_i * A[i]
\* with RHS |b[i]| >= 0 (sign_i = -1 if b[i] < 0, else +1) and artificial
\* column n+i is +1 in row i and 0 in the other rows; the objective row is
\* c - M * (sum of sign_i * A[i]) over the structural columns, 0 over the
\* artificial ones, and -M * (sum of |b[i]|) in the RHS.
C13_InitialTableau ==
    (pc = "solve" /\ mode \in {"main", "checked", "direct"}) =>
        LET AA == SolvedA
            bb == SolvedB
            m == Size(AA)
            n == Size(c)
            t == tableau
            sign(i) == IF WLt(bb[i], Zero) THEN I(-1) ELSE I(1)
        IN  /\ DOMAIN t = 0 .. m
            /\ \A r \in 0 .. m : DOMAIN t[r] = 0 .. (n + m)
            /\ \A i \in Rng(m) :
                  /\ \A j \in Rng(n) : t[i + 1][j] = WMul(sign(i), AA[i][j])
                  /\ t[i + 1][n + m] = QAbs(bb[i])
                  /\ WLe(Zero, t[i + 1][n + m])
                  /\ \A k \in Rng(m) :
                        t[k + 1][n + i] = IF k = i THEN One ELSE Zero
            /\ \A j \in Rng(n) :
                  t[0][j] = WSub(c[j], WMul(I(PenaltyM),
                                WSumTo([i \in Rng(m) |-> WMul(sign(i), AA[i][j])], m)))
            /\ \A i \in Rng(m) : t[0][n + i] = Zero
            /\ t[0][n + m] =
                  QNeg(WMul(I(PenaltyM), WSumTo([i \in Rng(m) |-> QAbs(bb[i])], m)))

\* a tableau built from a problem with a negative and a positive entry of b
C13_Witness ==
    /\ pc = "solve" /\ mode = "main"
    /\ \E i, k \in DOMAIN SolvedB :
          QLt(SolvedB[i], Zero) /\ QLt(Zero, SolvedB[k])
    /\ \E i \in DOMAIN SolvedA : \E j \in DOMAIN c : SolvedA[i][j] # Zero

----------------------------------------------------------------------------
(* The pivot rule.                                                         *)

\* the step is a pivot of solve_simplex
IsPivotStep == pivots' = pivots + 1

\* the rule of C12 for a pivot on tableau t with basis bv that chose column
\* e and row l: e is the first column with objective entry < -epsilon; l is
\* a constraint row with a strictly positive entry in column e, no such row
\* has a ratio smaller than l's by more than epsilon, and none with a ratio
\* within epsilon of l's has a smaller basic-variable index.  It reads the
\* rows as a set.
FollowsPivotRule(t, bv, e, l) ==
    LET m == Size(t) - 1
        n == Size(t[0]) - 1
        positive == {i \in 1 .. m : WLt(Zero, t[i][e])}
        ratio(i) == WDiv(Last(t[i]), t[i][e])
    IN  /\ e \in 0 .. (n - 1)
        /\ LtNegEps(t[0][e])
        /\ \A j \in 0 .. (e - 1) : ~LtNegEps(t[0][j])
        /\ l \in positive
        /\ \A i \in positive : ~GtEps(WSub(ratio(l), ratio(i)))
        /\ \A i \in positive :
              AbsLtEps(WSub(ratio(i), ratio(l))) => bv[l - 1] <= bv[i - 1]
        /\ \A k \in positive :
              (/\ \A i \in positive : ~GtEps(WSub(ratio(k), ratio(i)))
               /\ \A i \in positive :
                     AbsLtEps(WSub(ratio(i), ratio(k))) => bv[k - 1] <= bv[i - 1])
              => k = l

\* C12: in every pivot of solve_simplex the entering column is the smallest
\* column index whose objective-row entry is < -epsilon and the leaving row
\* is, among the constraint rows with a strictly positive entry in that
\* column, the one of minimal ratio RHS/entry, ties within epsilon going to
\* the smallest basic-variable index; the rows taken as a set decide it.
C12_PivotRule ==
    [][IsPivotStep =>
          FollowsPivotRule(tableau, Get(basic_vars), Get(entering'), Get(leaving'))]_vars

\* the same for the pivots whose entering column has an entry above the
\* 1e-10 of the ratio loop in some constraint row
C12_PivotRuleAboveThreshold ==
    [][(IsPivotStep /\ \E i \in 1 .. (Size(tableau) - 1) :
                          GtEps(tableau[i][Get(entering')]))
          => FollowsPivotRule(tableau, Get(basic_vars), Get(entering'), Get(leaving'))]_vars

\* a pass of the loop went past the unboundedness test: it pivoted or raised
RatioTestStep == pc = "loop" /\ (pivots' # pivots \/ exc' # exc)

\* C15: every pass of solve_simplex's loop whose unboundedness test does not
\* fire leaves the ratio loop with leave_row in 1..m (never its initial -1),
\* the entry tableau[leave_row, enter_col] strictly positive, and then
\* pivots on that constraint row (never on the objective row), raising
\* nothing; also when the positive entries of the entering column are all
\* at or below 1e-10.
C15_PivotOnSelectedRow ==
    [][RatioTestStep =>
          LET l == Get(leaving')
              e == Get(entering')
          IN  /\ l \in 1 .. (Size(tableau) - 1)
              /\ WLt(Zero, tableau[l][e])
              /\ exc' = exc
              /\ pivots' = pivots + 1
              /\ tableau'[l][e] = One]_vars

\* the same for the passes whose entering column has an entry above 1e-10
C15_PivotOnSelectedRowAboveThreshold ==
    [][(RatioTestStep /\ \E i \in 1 .. (Size(tableau) - 1) :
                            GtEps(tableau[i][enter_col(tableau)]))
          => LET l == Get(leaving')
                 e == Get(entering')
             IN  /\ l \in 1 .. (Size(tableau) - 1)
                 /\ GtEps(tableau[l][e])
                 /\ exc' = exc
                 /\ pivots' = pivots + 1
                 /\ tableau'[l][e] = One]_vars

\* C17: from a tableau built by initialize_tableau, after any number of
\* pivots every constraint-row RHS is >= 0, and no pivot lowers the
\* objective-row RHS (the objective -tableau[0, last] never increases).
C17_RhsNonNegativeObjectiveMonotone ==
    /\ [](((mode # "tableau") /\ tableau # None) =>
             \A i \in 1 .. (Size(tableau) - 1) : WLe(Zero, Last(tableau[i])))
    /\ [][(mode # "tableau" /\ IsPivotStep) =>
             WLe(Last(tableau[0]), Last(tableau'[0]))]_vars

\* the same while every pivot so far was on a row the ratio loop selected
C17_AfterSelectedPivots ==
    /\ [](((mode # "tableau") /\ tableau # None
            /\ (leaving = None \/ Get(leaving) >= 1)) =>
             \A i \in 1 .. (Size(tableau) - 1) : WLe(Zero, Last(tableau[i])))
    /\ [][(mode # "tableau" /\ IsPivotStep /\ Get(leaving') >= 1) =>
             WLe(Last(tableau[0]), Last(tableau'[0]))]_vars

\* the columns of the artificial variables
IsArtificial(t, j) == j >= num_original_vars(t) /\ j < NumColumns(t)

\* C14: whenever check_and_fix_rank, initialize_tableau and solve_simplex
\* end with status 'optimal', no artificial variable is basic at a positive
\* value in the final tableau and the returned x satisfies Ax = b, x >= 0
\* for the standard-form problem; A=[[1,1]], b=[-1] is never reported
\* 'optimal'.
C14_OptimalIsFeasible ==
    (pc = "solved" /\ mode \in {"main", "checked"} /\ status = "optimal") =>
        /\ \A i \in DOMAIN Get(basic_vars) :
              IsArtificial(tableau, Get(basic_vars)[i])
                  => ~QLt(Zero, Last(tableau[i + 1]))
        /\ IsFeasiblePoint(A, b, Get(solution))
        /\ ~(A = Mat(<< <<1, 1>> >>) /\ b = Vec(<<-1>>))

\* the same whenever the problem has a point x >= 0 with Ax = b
C14_OptimalIsFeasibleWhenSolvable ==
    (pc = "solved" /\ mode \in {"main", "checked"} /\ status = "optimal"
        /\ FullRowRank(SolvedA, Size(c)) /\ PrimalFeasibleBases(SolvedA, SolvedB, Size(c)) # {}) =>
        /\ \A i \in DOMAIN Get(basic_vars) :
              IsArtificial(tableau, Get(basic_vars)[i])
                  => ~QLt(Zero, Last(tableau[i + 1]))
        /\ IsFeasiblePoint(SolvedA, SolvedB, Get(solution))

\* every pass of the ratio loop so far selected a row
RowSelectedSoFar == leaving = None \/ Get(leaving) >= 1

\* the statements of C1 and C2 while every pass of the ratio loop so far
\* selected a row
C1_TerminatesAfterSelectedPivots == RowSelectedSoFar => C1_TerminatesWithoutCycling
C2_BasisInvariantAfterSelectedPivots == RowSelectedSoFar => C2_BasisInvariant

\* the rank of AA (n columns): the size of a largest set of independent rows
Rank(AA, n) ==
    Max({Cardinality(R) : R \in {R \in SUBSET DOMAIN AA :
                                    RowsIndependent(Select(AA, R), n)}})

\* the points with coordinates 0 and 1
UnitCube(n) == [Rng(n) -> {Zero, One}]

Solves(AA, bb, x) == \A i \in DOMAIN AA : Dot(AA[i], x) = bb[i]

\* [A | b]
Augmented(AA, bb) ==
    [i \in DOMAIN AA |->
        [j \in Rng(Size(AA[i]) + 1) |-> IF j < Size(AA[i]) THEN AA[i][j] ELSE bb[i]]]

\* Ax = b has a solution: b lies in the column space of A
Consistent(AA, bb, n) == Rank(AA, n) = Rank(Augmented(AA, bb), n + 1)

\* C16: for every feasible (A, b) the rows check_and_fix_rank keeps have the
\* rank of A, and A_reduced x = b_reduced has the solutions of Ax = b
\* (compared on the points of the unit cube); also for the rows
\* [1,0,0,0],[0,1,0,0],[1,1,0,0],[0,0,1,0] and for an A with more rows than
\* columns.
C16_ReductionKeepsRank ==
    (check_and_fix_rank_called /\ is_feasible = Some(TRUE)
        /\ Consistent(A, b, Size(c))) =>
        /\ Rank(Ar, Size(c)) = Rank(A, Size(c))
        /\ \A x \in UnitCube(Size(c)) : Solves(Ar, br, x) <=> Solves(A, b, x)

\* the same for an A whose nonzero rows that are no multiple of an earlier
\* row are independent
C16_ReductionKeepsRankOfIndependentRows ==
    (check_and_fix_rank_called /\ is_feasible = Some(TRUE)
        /\ Consistent(A, b, Size(c))
        /\ RowsIndependent(Select(A, pre_check_matrix(A)), Size(c))) =>
        /\ Rank(Ar, Size(c)) = Rank(A, Size(c))
        /\ \A x \in UnitCube(Size(c)) : Solves(Ar, br, x) <=> Solves(A, b, x)

====
